---- MODULE Spec2Model ----
(***************************************************************************)
(* Model of .evergreen/scripts/generate_config.py: the build-variant       *)
(* generator (host registry, interpreter-binary and display-name           *)
(* resolution, zip_cycle, create_variant, the two variant generators and   *)
(* the module-level generation run).                                       *)
(*                                                                         *)
(* Python values are modelled as follows.                                  *)
(*   str            a TLA+ string                                          *)
(*   list / tuple   a sequence                                             *)
(*   dict           a sequence of <<key, value>> pairs with distinct keys, *)
(*                  in insertion order                                     *)
(*   Optional[T]    [some |-> FALSE] for None, [some |-> TRUE, val |-> v]  *)
(*   a mutable dict object that is shared between calls lives in `heap'    *)
(*                  and is named by its reference (an index of heap)       *)
(*   a call's outcome   [exc |-> "", val |-> v] when it returns v,         *)
(*                  [exc |-> "KeyError", ...] when it raises              *)
(***************************************************************************)
EXTENDS Integers, Sequences, FiniteSets, TLC

VARIABLES
    zc_iterables,   \* zip_cycle: the positional arguments (a tuple of lists)
    zc_default,     \* zip_cycle: the empty_default keyword, None when not passed
    zc_gen,         \* zip_cycle: the generator object's frame (cycles, zip_longest)
    zc_out,         \* zip_cycle: the tuples the consumer has received so far
    zc_pc,          \* zip_cycle: "running" until the generator raises StopIteration
    HOSTS,          \* the module global HOSTS (lines 40, 55-59)
    DISPLAY_LOOKUP, \* the module global DISPLAY_LOOKUP (lines 34-39)
    heap,           \* the dict objects that outlive a call, by reference
    dn_args,        \* get_display_name: the arguments of the call
    dn_ret,         \* get_display_name: None before the call, then its outcome
    cv_expansions0, \* create_variant: the expansions mapping as its owner built it
    cv_prev,        \* create_variant: python= and expansions= of the call before the last
    cv_args,        \* create_variant: the arguments of the last call
    cv_ret,         \* create_variant: None before the first call, then the last outcome
    gen_fn,         \* the run: "server" for line 256, "ocsp" for create_ocsp_variants()
    pc,             \* the run: where control is
    it,             \* the run: the iteration of the current for loop, from 1
    variants,       \* the run: the local list `variants'
    exc,            \* the run: the exception that ended it, "" if none
    stdout          \* the run: what has been printed, one item per print call

zc_vars == <<zc_iterables, zc_default, zc_gen, zc_out, zc_pc>>

globals == <<HOSTS, DISPLAY_LOOKUP, heap>>

dn_vars == <<dn_args, dn_ret>>

cv_vars == <<cv_expansions0, cv_prev, cv_args, cv_ret>>

run_vars == <<gen_fn, pc, it, variants, exc, stdout>>

vars == <<zc_vars, globals, dn_vars, cv_vars, run_vars>>

(***************************************************************************)
(* Optional values and call outcomes.                                      *)
(***************************************************************************)
None == [some |-> FALSE]

Some(v) == [some |-> TRUE, val |-> v]

Ok(v) == [exc |-> "", val |-> v]

Raise(e) == [exc |-> e, val |-> None]

Max(a, b) == IF a >= b THEN a ELSE b

(***************************************************************************)
(* str operations.                                                         *)
(***************************************************************************)
UpperCase == "ABCDEFGHIJKLMNOPQRSTUVWXYZ"

LowerCase == "abcdefghijklmnopqrstuvwxyz"

LowerOf ==
    [c \in {SubSeq(UpperCase, i, i) : i \in 1..Len(UpperCase)} |->
        LET i == CHOOSE i \in 1..Len(UpperCase) : SubSeq(UpperCase, i, i) = c
        IN  SubSeq(LowerCase, i, i)]

CharLower(c) == IF c \in DOMAIN LowerOf THEN LowerOf[c] ELSE c

\* s.lower()
RECURSIVE StrLower(_)
StrLower(s) ==
    IF Len(s) = 0 THEN ""
    ELSE CharLower(SubSeq(s, 1, 1)) \o StrLower(SubSeq(s, 2, Len(s)))

\* s.replace(old, new) for a one-character old.
RECURSIVE StrReplace(_, _, _)
StrReplace(s, old, new) ==
    IF Len(s) = 0 THEN ""
    ELSE (IF SubSeq(s, 1, 1) = old THEN new ELSE SubSeq(s, 1, 1))
             \o StrReplace(SubSeq(s, 2, Len(s)), old, new)

\* s.startswith(prefix)
StartsWith(s, prefix) ==
    /\ Len(s) >= Len(prefix)
    /\ SubSeq(s, 1, Len(prefix)) = prefix

(***************************************************************************)
(* dict operations.                                                        *)
(***************************************************************************)
DictKeys(d) == {d[i][1] : i \in 1..Len(d)}

DictHas(d, k) == \E i \in 1..Len(d) : d[i][1] = k

DictIndex(d, k) == CHOOSE i \in 1..Len(d) : d[i][1] = k

\* d[k], for a key that is present
DictGet(d, k) == d[DictIndex(d, k)][2]

\* d[k] = v
DictSet(d, k, v) ==
    IF DictHas(d, k)
    THEN [d EXCEPT ![DictIndex(d, k)] = <<k, v>>]
    ELSE Append(d, <<k, v>>)

\* d.pop(k), for a key that is present: what is left of d
DictRemove(d, k) ==
    SubSeq(d, 1, DictIndex(d, k) - 1) \o SubSeq(d, DictIndex(d, k) + 1, Len(d))

\* d.update(other)
RECURSIVE DictUpdate(_, _)
DictUpdate(d, other) ==
    IF other = <<>> THEN d
    ELSE DictUpdate(DictSet(d, Head(other)[1], Head(other)[2]), Tail(other))

(***************************************************************************)
(* Globals (lines 25-59).                                                  *)
(***************************************************************************)
ALL_VERSIONS == <<"4.0", "4.4", "5.0", "6.0", "7.0", "8.0", "rapid", "latest">>

CPYTHONS == <<"3.9", "3.10", "3.11", "3.12", "3.13">>

PYPYS == <<"pypy3.9", "pypy3.10">>

ALL_PYTHONS == CPYTHONS \o PYPYS

MIN_MAX_PYTHON == <<CPYTHONS[1], CPYTHONS[Len(CPYTHONS)]>>

BATCHTIME_WEEK == 10080

AUTH_SSLS == << <<"auth", "ssl">>, <<"noauth", "ssl">>, <<"noauth", "nossl">> >>

TOPOLOGIES == <<"standalone", "replica_set", "sharded_cluster">>

SYNCS == <<"sync", "async">>

\* DISPLAY_LOOKUP with the Sync label pasted for both test suites.
DisplayLookupSameSuiteLabel ==
    << <<"ssl",         << <<"ssl", "SSL">>, <<"nossl", "NoSSL">> >> >>,
       <<"auth",        << <<"auth", "Auth">>, <<"noauth", "NoAuth">> >> >>,
       <<"test_suites", << <<"default", "Sync">>, <<"default_async", "Sync">> >> >>,
       <<"coverage",    << <<"coverage", "cov">> >> >> >>

\* DISPLAY_LOOKUP as the module builds it.
DisplayLookupAtImport ==
    << <<"ssl",         << <<"ssl", "SSL">>, <<"nossl", "NoSSL">> >> >>,
       <<"auth",        << <<"auth", "Auth">>, <<"noauth", "NoAuth">> >> >>,
       <<"test_suites", << <<"default", "Sync">>, <<"default_async", "Async">> >> >>,
       <<"coverage",    << <<"coverage", "cov">> >> >> >>

\* The two dict objects the host profiles refer to: _macos_expansions (line
\* 51), shared by the Windows and macOS profiles, and the dict() of rhel8.
MacosExpansionsRef == 1

Rhel8ExpansionsRef == 2

HeapAtImport ==
    << << <<"SKIP_CSOT_TESTS", "true">> >>, <<>> >>

\* class Host (lines 43-48)
Host(name, run_on, display_name, expansions) ==
    [name |-> name, run_on |-> run_on, display_name |-> display_name,
     expansions |-> expansions]

\* HOSTS once lines 55-59 have run.
HostsAtImport ==
    << <<"rhel8", Host("rhel8", "rhel87-small", "RHEL8", Rhel8ExpansionsRef)>>,
       <<"win64", Host("win64", "windows-64-vsMulti-small", "Win64", MacosExpansionsRef)>>,
       <<"win32", Host("win32", "windows-64-vsMulti-small", "Win32", MacosExpansionsRef)>>,
       <<"macos", Host("macos", "macos-14", "macOS", MacosExpansionsRef)>>,
       <<"macos-arm64",
         Host("macos-arm64", "macos-14-arm64", "macOS Arm64", MacosExpansionsRef)>> >>

(***************************************************************************)
(* get_python_binary (lines 99-115).                                       *)
(***************************************************************************)
get_python_binary(python, host) ==
    IF host \in {"win64", "win32"}
    THEN LET base == IF host = "win32" THEN "C:/python/32" ELSE "C:/python"
         IN  Ok(base \o "/Python" \o StrReplace(python, ".", "") \o "/python.exe")
    ELSE IF host = "rhel8"
    THEN Ok("/opt/python/" \o python \o "/bin/python3")
    ELSE IF host \in {"macos", "macos-arm64"}
    THEN Ok("/Library/Frameworks/Python.Framework/Versions/" \o python
                \o "/bin/python3")
    ELSE Raise("ValueError")

(***************************************************************************)
(* get_display_name (lines 118-134).                                       *)
(***************************************************************************)
\* The loop body with the version rule applied to every value, the rolling
\* builds included.
axis_name_always_v(lookup, key, value) ==
    IF key = "version"
    THEN Ok("v" \o value)
    ELSE IF key = "python"
    THEN Ok(IF ~StartsWith(value, "pypy") THEN "py" \o value ELSE value)
    ELSE IF DictHas(lookup, StrLower(key))
    THEN IF DictHas(DictGet(lookup, StrLower(key)), value)
         THEN Ok(DictGet(DictGet(lookup, StrLower(key)), value))
         ELSE Raise("KeyError")
    ELSE Raise("ValueError")

\* Lines 122-132: the token of one axis binding.
axis_name(lookup, key, value) ==
    IF key = "version"
    THEN Ok(IF value \notin {"rapid", "latest"} THEN "v" \o value ELSE value)
    ELSE IF key = "python"
    THEN Ok(IF ~StartsWith(value, "pypy") THEN "py" \o value ELSE value)
    ELSE IF DictHas(lookup, StrLower(key))
    THEN IF DictHas(DictGet(lookup, StrLower(key)), value)
         THEN Ok(DictGet(DictGet(lookup, StrLower(key)), value))
         ELSE Raise("KeyError")
    ELSE Raise("ValueError")

\* Lines 121-134: the loop over kwargs.items(), from `display_name' on.
RECURSIVE display_name_loop(_, _, _)
display_name_loop(lookup, display_name, items) ==
    IF items = <<>> THEN Ok(display_name)
    ELSE LET name == axis_name(lookup, Head(items)[1], Head(items)[2])
         IN  IF name.exc # "" THEN name
             ELSE display_name_loop(lookup, display_name \o " " \o name.val,
                                    Tail(items))

get_display_name(hosts, lookup, base, host, kwargs) ==
    IF ~DictHas(hosts, host) THEN Raise("KeyError")
    ELSE display_name_loop(lookup,
                           base \o " " \o DictGet(hosts, host).display_name,
                           kwargs)

\* The call get_display_name(*args, **kwargs): the signature (line 118)
\* takes exactly two positional arguments.
call_get_display_name(hosts, lookup, args, kwargs) ==
    IF Len(args) # 2 THEN Raise("TypeError")
    ELSE get_display_name(hosts, lookup, args[1], args[2], kwargs)

(***************************************************************************)
(* create_variant (lines 67-96).                                           *)
(***************************************************************************)
\* `if x:' and `x or y' on an Optional[str]
Truthy(x) == x.some /\ x.val # ""

\* dict(): a new, empty dict object
dict_new(h) == [heap |-> Append(h, <<>>), ref |-> Len(h) + 1]

\* The same object handed back instead of a copy.
dict_alias(h, ref) == [heap |-> h, ref |-> ref]

\* d.copy(): a new dict object with d's items
dict_copy(h, ref) == [heap |-> Append(h, h[ref]), ref |-> Len(h) + 1]

\* The host profile's items used as the base, the variant's written over them.
update_onto_host(expansions, host_expansions) ==
    DictUpdate(host_expansions, expansions)

\* Line 87: expansions.update(HOSTS[host].expansions)
update_from_host(expansions, host_expansions) ==
    DictUpdate(expansions, host_expansions)

\* The mapping kept even when it is empty.
keep_empty(expansions) == Some(expansions)

\* Line 88: expansions or None
or_none(expansions) == IF expansions # <<>> THEN Some(expansions) ELSE None

EvgTaskRef(name) == [name |-> name]

\* BuildVariant(...) of lines 89-96; the model object keeps its own copy of
\* the mapping it is given.
BuildVariant(name, display_name, tasks, expansions, run_on, kwargs) ==
    [name |-> name, display_name |-> display_name, tasks |-> tasks,
     expansions |-> expansions, run_on |-> run_on, kwargs |-> kwargs]

Raised(e, h) == [exc |-> e, val |-> None, heap |-> h]

\* The whole function.  `h' is the heap at the call, `kwargs' the keyword
\* arguments other than python, version and host; an "expansions" item of
\* kwargs is a reference into h.  The outcome carries the heap the call
\* leaves behind.
create_variant(h, hosts, task_names, display_name, python, version, host, kwargs) ==
    LET task_refs == [i \in 1..Len(task_names) |-> EvgTaskRef(task_names[i])]
        d1 == dict_new(h)
        kw1 == IF DictHas(kwargs, "expansions") THEN kwargs
               ELSE DictSet(kwargs, "expansions", d1.ref)
        d2 == dict_new(d1.heap)
        kw2 == DictRemove(kw1, "expansions")
        cp == dict_copy(d2.heap, DictGet(kw1, "expansions"))
        expansions == cp.ref
        host1 == IF Truthy(host) THEN host.val ELSE "rhel8"
    IN  IF ~DictHas(hosts, host1) THEN Raised("KeyError", cp.heap)
        ELSE
        LET run_on == <<DictGet(hosts, host1).run_on>>
            name == StrLower(StrReplace(display_name, " ", "-"))
            binary == IF Truthy(python) THEN get_python_binary(python.val, host1)
                      ELSE Ok("")
        IN  IF binary.exc # "" THEN Raised(binary.exc, cp.heap)
            ELSE
            LET h1 == IF Truthy(python)
                      THEN [cp.heap EXCEPT ![expansions] =
                               DictSet(@, "PYTHON_BINARY", binary.val)]
                      ELSE cp.heap
                h2 == IF Truthy(version)
                      THEN [h1 EXCEPT ![expansions] = DictSet(@, "VERSION", version.val)]
                      ELSE h1
                h3 == [h2 EXCEPT ![expansions] =
                          update_from_host(@, h2[DictGet(hosts, host1).expansions])]
            IN  [exc  |-> "",
                 val  |-> BuildVariant(name, display_name, task_refs,
                                       or_none(h3[expansions]), run_on, kw2),
                 heap |-> h3]

(***************************************************************************)
(* zip_cycle (lines 137-141).                                              *)
(***************************************************************************)
\* itertools.cycle(i): yields the items of i, saving each; once i is
\* exhausted it yields the saved items over and over.
cycle(i) == [src |-> i, pos |-> 1, saved |-> <<>>, k |-> 1]

\* cycle_next with the replay index never advanced: once the input is
\* exhausted the first saved item is repeated for ever.
cycle_next_stuck(c, default) ==
    IF c.pos <= Len(c.src)
    THEN [val |-> c.src[c.pos],
          it  |-> [c EXCEPT !.pos = c.pos + 1,
                            !.saved = Append(c.saved, c.src[c.pos])]]
    ELSE IF c.saved = <<>>
         THEN [val |-> default, it |-> c]
         ELSE [val |-> c.saved[1], it |-> c]

\* next(c, default) on a cycle object: the value and the advanced object.
cycle_next(c, default) ==
    IF c.pos <= Len(c.src)
    THEN [val |-> c.src[c.pos],
          it  |-> [c EXCEPT !.pos = c.pos + 1,
                            !.saved = Append(c.saved, c.src[c.pos])]]
    ELSE IF c.saved = <<>>
         THEN [val |-> default, it |-> c]
         ELSE [val |-> c.saved[c.k],
               it  |-> [c EXCEPT !.k = (c.k % Len(c.saved)) + 1]]

\* The builtin zip in place of zip_longest: the rounds end with the
\* shortest input.
zip_shortest_has_next(iterables, n) ==
    \A j \in 1..Len(iterables) : n < Len(iterables[j])

\* zip_longest(*iterables): one item per round until every input is
\* exhausted; `n' is the number of rounds already produced.
zip_longest_has_next(iterables, n) ==
    \E j \in 1..Len(iterables) : n < Len(iterables[j])

\* The generator object zip_cycle(*iterables, empty_default=...) before its
\* first next(): line 139 has not run yet, but nothing observes the
\* difference, so the frame is shown with `cycles' already built.
zip_cycle(iterables, empty_default) ==
    [cycles  |-> [j \in 1..Len(iterables) |-> cycle(iterables[j])],
     inputs  |-> iterables,
     round   |-> 0,
     default |-> empty_default]

\* next(g) on the generator: line 140 asks zip_longest for another round and
\* line 141 yields one tuple built from the cycles.
zip_cycle_next(g) ==
    IF zip_longest_has_next(g.inputs, g.round)
    THEN LET steps == [j \in 1..Len(g.cycles) |-> cycle_next(g.cycles[j], g.default)]
         IN  [stop |-> FALSE,
              val  |-> [j \in 1..Len(g.cycles) |-> steps[j].val],
              gen  |-> [g EXCEPT !.cycles = [j \in 1..Len(g.cycles) |-> steps[j].it],
                                 !.round = g.round + 1]]
    ELSE [stop |-> TRUE, val |-> <<>>, gen |-> g]

\* list(g): the generator drained, as the for loops of the module do.
RECURSIVE drain(_, _)
drain(g, acc) ==
    LET r == zip_cycle_next(g)
    IN  IF r.stop THEN acc ELSE drain(r.gen, Append(acc, r.val))

list_zip_cycle(iterables, empty_default) ==
    drain(zip_cycle(iterables, empty_default), <<>>)

(***************************************************************************)
(* Specification SpecZip: zip_cycle on bounded inputs, consumed one next() *)
(* at a time.                                                              *)
(***************************************************************************)
MaxLen == 4

ZipArities == {2, 3}

\* zip_cycle never inspects an item, so lists of distinct items stand for all
\* lists: 1..n in ascending and in descending order.
ZipLists ==
    {[i \in 1..n |-> i] : n \in 0..MaxLen}
        \cup {[i \in 1..n |-> n + 1 - i] : n \in 0..MaxLen}

ZipInputs == UNION {[1..n -> ZipLists] : n \in ZipArities}

\* The value bound to the keyword parameter empty_default=None (line 137):
\* the caller's value when the keyword is passed, None otherwise.
empty_default_arg(kw) == IF kw.some THEN kw.val ELSE None

\* The globals as the module leaves them once imported.
GlobalsAtImport ==
    /\ HOSTS = HostsAtImport
    /\ DISPLAY_LOOKUP = DisplayLookupAtImport
    /\ heap = HeapAtImport

ZipIdle ==
    /\ zc_iterables = <<>>
    /\ zc_default = None
    /\ zc_gen = None
    /\ zc_out = <<>>
    /\ zc_pc = "idle"

NameIdle ==
    /\ dn_args = None
    /\ dn_ret = None

VariantIdle ==
    /\ cv_expansions0 = <<>>
    /\ cv_prev = None
    /\ cv_args = None
    /\ cv_ret = None

RunIdle ==
    /\ gen_fn = ""
    /\ pc = "idle"
    /\ it = 0
    /\ variants = <<>>
    /\ exc = ""
    /\ stdout = <<>>

ZipInit ==
    /\ GlobalsAtImport
    /\ NameIdle
    /\ VariantIdle
    /\ RunIdle
    /\ zc_iterables \in ZipInputs
    /\ zc_default \in {None, Some("d")}
    /\ zc_gen = zip_cycle(zc_iterables, empty_default_arg(zc_default))
    /\ zc_out = <<>>
    /\ zc_pc = "running"

ZipNextItem ==
    /\ zc_pc = "running"
    /\ ~zip_cycle_next(zc_gen).stop
    /\ zc_out' = Append(zc_out, zip_cycle_next(zc_gen).val)
    /\ zc_gen' = zip_cycle_next(zc_gen).gen
    /\ UNCHANGED <<zc_iterables, zc_default, zc_pc, globals, dn_vars, cv_vars, run_vars>>

ZipStop ==
    /\ zc_pc = "running"
    /\ zip_cycle_next(zc_gen).stop
    /\ zc_pc' = "stopped"
    /\ UNCHANGED <<zc_iterables, zc_default, zc_gen, zc_out, globals, dn_vars, cv_vars, run_vars>>

ZipNext == ZipNextItem \/ ZipStop

SpecZip == ZipInit /\ [][ZipNext]_vars

(***************************************************************************)
(* Claims about zip_cycle.                                                 *)
(***************************************************************************)
RECURSIVE MaxLenOf(_)
MaxLenOf(lists) ==
    IF lists = <<>> THEN 0
    ELSE Max(Len(Head(lists)), MaxLenOf(Tail(lists)))

AllNonEmpty(lists) == \A j \in 1..Len(lists) : lists[j] # <<>>

\* C3: for non-empty inputs (two of them, or three) zip_cycle yields exactly
\* max of the lengths tuples and then stops, and the tuple at output index i
\* (counted from 0) holds, in slot j, input j's element at i mod its length.
C3_ZipCycleWraps ==
    AllNonEmpty(zc_iterables) =>
        /\ Len(zc_out) <= MaxLenOf(zc_iterables)
        /\ zc_pc = "stopped" => Len(zc_out) = MaxLenOf(zc_iterables)
        /\ \A i \in 1..Len(zc_out) :
               /\ Len(zc_out[i]) = Len(zc_iterables)
               /\ \A j \in 1..Len(zc_iterables) :
                      zc_out[i][j] =
                          zc_iterables[j][((i - 1) % Len(zc_iterables[j])) + 1]

\* A drained three-input call whose inputs have lengths 2, 4 and 1: the
\* first input is replayed in full, the third is repeated.
C3_Witness ==
    /\ zc_pc = "stopped"
    /\ Len(zc_iterables) = 3
    /\ zc_iterables[1] = <<2, 1>>
    /\ Len(zc_iterables[2]) = 4
    /\ Len(zc_iterables[3]) = 1
    /\ Len(zc_out) = 4
    /\ zc_out[3][1] = 2
    /\ zc_out[4][1] = 1

\* C4: with one empty input, one non-empty input of length n and an
\* empty_default d, zip_cycle yields exactly n tuples; the empty input's slot
\* is d in every tuple and the other slot follows the non-empty input.
C4_ZipCycleEmptyDefault ==
    \A e \in 1..2 :
        LET o == 3 - e
        IN  (/\ Len(zc_iterables) = 2
             /\ zc_iterables[e] = <<>>
             /\ zc_iterables[o] # <<>>
             /\ zc_default = Some("d")) =>
                /\ Len(zc_out) <= Len(zc_iterables[o])
                /\ zc_pc = "stopped" => Len(zc_out) = Len(zc_iterables[o])
                /\ \A i \in 1..Len(zc_out) :
                       /\ Len(zc_out[i]) = 2
                       /\ zc_out[i][e] = "d"
                       /\ zc_out[i][o] = zc_iterables[o][i]

C4_Witness ==
    /\ zc_pc = "stopped"
    /\ zc_default = Some("d")
    /\ zc_iterables = << <<>>, <<3, 2, 1>> >>
    /\ Len(zc_out) = 3
    /\ zc_out[2] = <<"d", 2>>

(***************************************************************************)
(* Specification SpecName: one call of get_display_name on bounded         *)
(* arguments.                                                              *)
(***************************************************************************)
MaxAxes == 3

NameBases == {"Test", "OCSP test"}

NameHosts == {"rhel8", "macos-arm64", "ubuntu"}

AxisBindings ==
    { <<"version", "4.4">>, <<"version", "latest">>,
      <<"python", "3.9">>, <<"python", "pypy3.10">>,
      <<"auth", "auth">>, <<"auth", "anon">>,
      <<"ssl", "ssl">>, <<"SSL", "nossl">>,
      <<"COVERAGE", "coverage">>, <<"topology", "server">> }

\* Keyword arguments: a key is bound once.
AxisSeqs ==
    {kw \in UNION {[1..n -> AxisBindings] : n \in 0..MaxAxes} :
        \A i, j \in 1..Len(kw) : i # j => kw[i][1] # kw[j][1]}

NameInit ==
    /\ GlobalsAtImport
    /\ ZipIdle
    /\ VariantIdle
    /\ RunIdle
    /\ dn_args \in [base : NameBases, host : NameHosts, kwargs : AxisSeqs]
    /\ dn_ret = None

NameCall ==
    /\ ~dn_ret.some
    /\ dn_ret' = Some(call_get_display_name(HOSTS, DISPLAY_LOOKUP,
                                            <<dn_args.base, dn_args.host>>,
                                            dn_args.kwargs))
    /\ UNCHANGED <<dn_args, globals, zc_vars, cv_vars, run_vars>>

NameNext == NameCall

SpecName == NameInit /\ [][NameNext]_vars

(***************************************************************************)
(* Claims about get_display_name.                                          *)
(***************************************************************************)
C8_HostLabel ==
    [h \in {"rhel8", "win64", "win32", "macos", "macos-arm64"} |->
        CASE h = "rhel8" -> "RHEL8"
          [] h = "win64" -> "Win64"
          [] h = "win32" -> "Win32"
          [] h = "macos" -> "macOS"
          [] h = "macos-arm64" -> "macOS Arm64"]

C8_Labels ==
    { <<"ssl", "ssl", "SSL">>, <<"ssl", "nossl", "NoSSL">>,
      <<"auth", "auth", "Auth">>, <<"auth", "noauth", "NoAuth">>,
      <<"test_suites", "default", "Sync">>,
      <<"test_suites", "default_async", "Async">>,
      <<"coverage", "coverage", "cov">> }

C8_Recognized(key, value) ==
    \/ key \in {"version", "python"}
    \/ \E l \in C8_Labels : l[1] = StrLower(key) /\ l[2] = value

C8_Token(key, value) ==
    IF key = "version"
    THEN IF value \in {"rapid", "latest"} THEN value ELSE "v" \o value
    ELSE IF key = "python"
    THEN IF Len(value) >= 4 /\ SubSeq(value, 1, 4) = "pypy"
         THEN value ELSE "py" \o value
    ELSE (CHOOSE l \in C8_Labels : l[1] = StrLower(key) /\ l[2] = value)[3]

RECURSIVE C8_Join(_, _)
C8_Join(kw, n) ==
    IF n = 0 THEN ""
    ELSE C8_Join(kw, n - 1) \o " " \o C8_Token(kw[n][1], kw[n][2])

\* C8: for a registered host and axis bindings that all have a rule,
\* get_display_name returns "<base> <host display label>" followed by one
\* space-separated token per binding in the caller's order: "v"+value for a
\* version other than rapid and latest, "py"+value for a python that does
\* not start with pypy, the label of the value otherwise; and ("Test",
\* "rhel8", python 3.9, auth auth, ssl ssl) gives "Test RHEL8 py3.9 Auth SSL".
C8_DisplayName ==
    (/\ dn_ret.some
     /\ dn_args.host \in DOMAIN C8_HostLabel
     /\ \A i \in 1..Len(dn_args.kwargs) :
            C8_Recognized(dn_args.kwargs[i][1], dn_args.kwargs[i][2])) =>
        /\ dn_ret.val.exc = ""
        /\ dn_ret.val.val =
               dn_args.base \o " " \o C8_HostLabel[dn_args.host]
                   \o C8_Join(dn_args.kwargs, Len(dn_args.kwargs))
        /\ (/\ dn_args.base = "Test"
            /\ dn_args.host = "rhel8"
            /\ dn_args.kwargs = << <<"python", "3.9">>, <<"auth", "auth">>,
                                   <<"ssl", "ssl">> >>) =>
               dn_ret.val.val = "Test RHEL8 py3.9 Auth SSL"

\* The call of the example has returned.
C8_Witness ==
    /\ dn_ret.some
    /\ dn_args = [base |-> "Test", host |-> "rhel8",
                  kwargs |-> << <<"python", "3.9">>, <<"auth", "auth">>,
                                <<"ssl", "ssl">> >>]
    /\ dn_ret.val = Ok("Test RHEL8 py3.9 Auth SSL")

(***************************************************************************)
(* Specification SpecVariant: any number of create_variant calls by one    *)
(* caller that owns an expansions mapping and passes it, or passes none.   *)
(***************************************************************************)
\* The caller's mapping follows the import-time objects in the heap.
CallerExpansionsRef == Len(HeapAtImport) + 1

CallerMappings ==
    { <<>>,
      << <<"AUTH", "noauth">>, <<"SSL", "ssl">>, <<"TOPOLOGY", "server">> >>,
      << <<"SKIP_CSOT_TESTS", "false">> >>,
      << <<"AUTH", "auth">>, <<"SKIP_CSOT_TESTS", "false">> >>,
      << <<"PYTHON_BINARY", "/usr/bin/python3">>, <<"VERSION", "4.0">> >> }

VariantPythons == {None, Some("3.9"), Some("3.10")}

VariantVersions == {None, Some("4.4")}

VariantHosts ==
    {None} \cup {Some(x) : x \in {"rhel8", "win32", "macos", "ubuntu"}}

VariantDisplayNames == {"Test macOS Arm64"}

VariantInit ==
    /\ HOSTS = HostsAtImport
    /\ DISPLAY_LOOKUP = DisplayLookupAtImport
    /\ cv_expansions0 \in CallerMappings
    /\ heap = Append(HeapAtImport, cv_expansions0)
    /\ cv_prev = None
    /\ cv_args = None
    /\ cv_ret = None
    /\ ZipIdle
    /\ NameIdle
    /\ RunIdle

\* One call create_variant([".ocsp"], display_name, python=, version=,
\* host=, batchtime=, [expansions=]); the caller keeps the returned variant
\* and drops the one before.
VariantCall ==
    \E display_name \in VariantDisplayNames, python \in VariantPythons,
       version \in VariantVersions, host \in VariantHosts, pass \in BOOLEAN :
        LET kwargs == IF pass
                      THEN << <<"expansions", CallerExpansionsRef>>,
                              <<"batchtime", BATCHTIME_WEEK * 2>> >>
                      ELSE << <<"batchtime", BATCHTIME_WEEK * 2>> >>
            r == create_variant(heap, HOSTS, <<".ocsp">>, display_name,
                                python, version, host, kwargs)
        IN  /\ cv_prev' = IF cv_args.some
                          THEN Some([python |-> cv_args.val.python,
                                     pass |-> cv_args.val.pass])
                          ELSE None
            /\ cv_args' = Some([display_name |-> display_name, python |-> python,
                                version |-> version, host |-> host, pass |-> pass])
            /\ cv_ret' = Some([exc |-> r.exc, val |-> r.val])
            /\ heap' = SubSeq(r.heap, 1, Len(heap))
            /\ UNCHANGED <<HOSTS, DISPLAY_LOOKUP, cv_expansions0, zc_vars, dn_vars, run_vars>>

VariantNext == VariantCall

SpecVariant == VariantInit /\ [][VariantNext]_vars

(***************************************************************************)
(* Claims about create_variant.                                            *)
(***************************************************************************)
\* The last call returned a variant.
CvReturned == cv_ret.some /\ cv_ret.val.exc = ""

\* The expansions of the returned variant, an absent field read as empty.
CvExpansions ==
    IF cv_ret.val.val.expansions.some THEN cv_ret.val.val.expansions.val ELSE <<>>

\* What the last call passed as expansions=.
CvCallerExpansions == IF cv_args.val.pass THEN cv_expansions0 ELSE <<>>

CvHost == IF cv_args.val.host.some THEN cv_args.val.host.val ELSE "rhel8"

\* The host profiles' default expansions (section 4.1 of the specification).
CvHostDefaults ==
    IF CvHost = "rhel8" THEN <<>> ELSE << <<"SKIP_CSOT_TESTS", "true">> >>

\* The keys create_variant sets from python= and version=.
CvOwnKeys ==
    (IF cv_args.val.python.some THEN {"PYTHON_BINARY"} ELSE {})
        \cup (IF cv_args.val.version.some THEN {"VERSION"} ELSE {})

\* C1 as stated: the returned expansions hold every caller key and every
\* host-default key, and a key present in both has the caller's value.
C1_CallerWins ==
    CvReturned =>
        /\ DictKeys(CvCallerExpansions) \cup DictKeys(CvHostDefaults)
               \subseteq DictKeys(CvExpansions)
        /\ \A k \in DictKeys(CvCallerExpansions) \cap DictKeys(CvHostDefaults) :
               DictGet(CvExpansions, k) = DictGet(CvCallerExpansions, k)

\* C1 amended: the returned expansions hold exactly the caller's keys, the
\* host-default keys and the keys set from python= and version=; a key present
\* in the host defaults has the host's value, also when the caller passed
\* it; a caller key that neither the host nor python=/version= sets keeps
\* the caller's value.
C1_HostWins ==
    CvReturned =>
        /\ DictKeys(CvExpansions) =
               DictKeys(CvCallerExpansions) \cup DictKeys(CvHostDefaults)
                   \cup CvOwnKeys
        /\ \A k \in DictKeys(CvHostDefaults) :
               DictGet(CvExpansions, k) = DictGet(CvHostDefaults, k)
        /\ \A k \in (DictKeys(CvCallerExpansions) \ DictKeys(CvHostDefaults))
                        \ CvOwnKeys :
               DictGet(CvExpansions, k) = DictGet(CvCallerExpansions, k)

\* A call on macos that passed SKIP_CSOT_TESTS="false" has returned.
C1_Witness ==
    /\ CvReturned
    /\ cv_args.val.host = Some("macos")
    /\ cv_args.val.pass
    /\ cv_expansions0 = << <<"AUTH", "auth">>, <<"SKIP_CSOT_TESTS", "false">> >>
    /\ DictGet(CvExpansions, "AUTH") = "auth"
    /\ DictGet(CvExpansions, "SKIP_CSOT_TESTS") = "true"

\* C5: create_variant never returns a variant whose expansions field is an
\* empty mapping; when nothing is merged (no caller items, no python, no
\* version, no host defaults: host rhel8 or omitted) the field is absent.
C5_NoEmptyExpansions ==
    CvReturned =>
        /\ cv_ret.val.val.expansions.some => cv_ret.val.val.expansions.val # <<>>
        /\ (/\ CvCallerExpansions = <<>>
            /\ CvOwnKeys = {}
            /\ CvHostDefaults = <<>>) => ~cv_ret.val.val.expansions.some

\* A call with no expansions, no python, no version and no host has returned.
C5_Witness ==
    /\ CvReturned
    /\ ~cv_args.val.pass
    /\ cv_args.val.python = None
    /\ cv_args.val.version = None
    /\ cv_args.val.host = None
    /\ cv_ret.val.val.expansions = None
    /\ cv_ret.val.val.run_on = <<"rhel87-small">>

\* The value a key of the returned expansions may take from this call alone:
\* the value computed from python= or version= when given, else the caller's
\* own item, else nothing.
C10_Expected(key, given, value) ==
    IF given THEN Some(value)
    ELSE IF DictHas(CvCallerExpansions, key)
    THEN Some(DictGet(CvCallerExpansions, key))
    ELSE None

C10_Actual(key) ==
    IF DictHas(CvExpansions, key) THEN Some(DictGet(CvExpansions, key)) ELSE None

\* C10: create_variant leaves the caller's expansions mapping, HOSTS and the
\* host profiles' expansions mappings as they were, so after any sequence of
\* calls passing the same mapping the returned PYTHON_BINARY, VERSION and
\* host-default entries are those of the call's own python, version and host
\* arguments (or the caller's own item), never an earlier call's.
C10_NoSharedMutation ==
    /\ HOSTS = HostsAtImport
    /\ SubSeq(heap, 1, Len(HeapAtImport)) = HeapAtImport
    /\ cv_args.some => heap[CallerExpansionsRef] = cv_expansions0
    /\ CvReturned =>
           /\ C10_Actual("PYTHON_BINARY") =
                  C10_Expected("PYTHON_BINARY", cv_args.val.python.some,
                      IF cv_args.val.python.some
                      THEN get_python_binary(cv_args.val.python.val, CvHost).val
                      ELSE "")
           /\ C10_Actual("VERSION") =
                  C10_Expected("VERSION", cv_args.val.version.some,
                      IF cv_args.val.version.some THEN cv_args.val.version.val
                      ELSE "")
           /\ C10_Actual("SKIP_CSOT_TESTS") =
                  C10_Expected("SKIP_CSOT_TESTS", CvHostDefaults # <<>>, "true")

\* After a call that passed the mapping with python= on a Windows host, a
\* call passing the same mapping without python= on rhel8 has returned a
\* variant with neither PYTHON_BINARY nor SKIP_CSOT_TESTS.
C10_Witness ==
    /\ CvReturned
    /\ cv_prev = Some([python |-> Some("3.10"), pass |-> TRUE])
    /\ cv_args.val.pass
    /\ cv_args.val.python = None
    /\ cv_args.val.host = Some("rhel8")
    /\ cv_args.val.version = Some("4.4")
    /\ cv_expansions0 =
           << <<"AUTH", "noauth">>, <<"SSL", "ssl">>, <<"TOPOLOGY", "server">> >>
    /\ CvExpansions =
           << <<"AUTH", "noauth">>, <<"SSL", "ssl">>, <<"TOPOLOGY", "server">>,
              <<"VERSION", "4.4">> >>

(***************************************************************************)
(* The variant generators (lines 158-249) and the generation run (line     *)
(* 256).                                                                   *)
(***************************************************************************)
\* itertools.product(a, b) as a list
product(a, b) ==
    [k \in 1..(Len(a) * Len(b)) |->
        <<a[((k - 1) \div Len(b)) + 1], b[((k - 1) % Len(b)) + 1]>>]

\* Lines 202, 217-219 and 233-236: what the three loops of
\* create_server_variants iterate over.
LinuxFullItems ==
    product(MIN_MAX_PYTHON \o <<PYPYS[Len(PYPYS)]>>, AUTH_SSLS)

LinuxRestItems ==
    list_zip_cycle(<<SubSeq(CPYTHONS, 2, Len(CPYTHONS) - 1)
                         \o SubSeq(PYPYS, 1, Len(PYPYS) - 1),
                     AUTH_SSLS, TOPOLOGIES>>, None)

OtherHostItems ==
    product(<<"macos", "macos-arm64", "win64", "win32">>,
            product(list_zip_cycle(<<MIN_MAX_PYTHON, AUTH_SSLS, TOPOLOGIES>>, None),
                    SYNCS))

\* Lines 165-166 and 181: what the two loops of create_ocsp_variants
\* iterate over.
OcspLinuxItems ==
    list_zip_cycle(<<SelectSeq(ALL_VERSIONS, LAMBDA v : v # "4.0"), ALL_PYTHONS>>,
                   None)

OcspOtherItems == product(<<"win64", "macos">>, <<"4.4", "8.0">>)

\* One loop body: the display name is computed first (it is an argument of
\* the create_variant call), then the variant is built.
loop_body(h, hosts, lookup, dn_pos, dn_kw, task_names, python, version, host, kwargs) ==
    LET dn == call_get_display_name(hosts, lookup, dn_pos, dn_kw)
    IN  IF dn.exc # "" THEN Raised(dn.exc, h)
        ELSE create_variant(h, hosts, task_names, dn.val, python, version, host,
                            kwargs)

\* Lines 144-150.  The YAML text of the project is the work of
\* ShrubService; the printed document is kept as the project it renders.
generate_yaml(out, tasks, variants_) ==
    Append(out, [tasks |-> tasks, buildvariants |-> variants_])

(***************************************************************************)
(* Specification SpecGen: one generation run, or one call of               *)
(* create_ocsp_variants, with the constant tables as the module builds     *)
(* them or with one registration or one lookup entry missing (the          *)
(* malformed tables of the error-handling design).                         *)
(***************************************************************************)
Without(d, k) == SelectSeq(d, LAMBDA item : item[1] # k)

HostsEditions ==
    {HostsAtImport} \cup {Without(HostsAtImport, k) : k \in DictKeys(HostsAtImport)}

LookupEditions ==
    {DisplayLookupAtImport}
        \cup {Without(DisplayLookupAtImport, k) : k \in DictKeys(DisplayLookupAtImport)}

RunInit ==
    /\ HOSTS \in HostsEditions
    /\ DISPLAY_LOOKUP \in LookupEditions
    /\ heap = HeapAtImport
    /\ gen_fn \in {"server", "ocsp"}
    /\ pc = "start"
    /\ it = 0
    /\ variants = <<>>
    /\ exc = ""
    /\ stdout = <<>>
    /\ ZipIdle
    /\ NameIdle
    /\ VariantIdle

\* The end of one iteration of a loop over n items whose body gave r: the
\* exception leaves the function, or the variant is appended and the loop
\* goes on, or ends and control moves to `next'.
EndOfIteration(r, n, next) ==
    IF r.exc # ""
    THEN /\ pc' = "raised"
         /\ exc' = r.exc
         /\ UNCHANGED <<variants, it>>
    ELSE /\ variants' = Append(variants, r.val)
         /\ exc' = exc
         /\ IF it < n
            THEN it' = it + 1 /\ pc' = pc
            ELSE it' = 1 /\ pc' = next

\* Lines 198-201
ServerEnter ==
    /\ pc = "start"
    /\ gen_fn = "server"
    /\ pc' = "linux_full"
    /\ it' = 1
    /\ UNCHANGED <<gen_fn, variants, exc, stdout, globals, zc_vars, dn_vars, cv_vars>>

\* Lines 202-214
ServerLinuxFull ==
    /\ pc = "linux_full"
    /\ LET python == LinuxFullItems[it][1]
           auth == LinuxFullItems[it][2][1]
           ssl == LinuxFullItems[it][2][2]
           expansions == << <<"AUTH", auth>>, <<"SSL", ssl>>,
                            <<"COVERAGE", "coverage">> >>
           r == loop_body(Append(heap, expansions), HOSTS, DISPLAY_LOOKUP,
                          <<"Test", "rhel8">>,
                          << <<"python", python>> >> \o expansions,
                          [i \in 1..Len(TOPOLOGIES) |-> "." \o TOPOLOGIES[i]],
                          Some(python), None, Some("rhel8"),
                          << <<"tags", <<"coverage_tag">> >>,
                             <<"expansions", Len(heap) + 1>> >>)
       IN  /\ EndOfIteration(r, Len(LinuxFullItems), "linux_rest")
           /\ heap' = SubSeq(r.heap, 1, Len(heap))
    /\ UNCHANGED <<gen_fn, stdout, HOSTS, DISPLAY_LOOKUP, zc_vars, dn_vars, cv_vars>>

\* Lines 217-230
ServerLinuxRest ==
    /\ pc = "linux_rest"
    /\ LET python == LinuxRestItems[it][1]
           auth == LinuxRestItems[it][2][1]
           ssl == LinuxRestItems[it][2][2]
           topology == LinuxRestItems[it][3]
           expansions == << <<"AUTH", auth>>, <<"SSL", ssl>> >>
           r == loop_body(Append(heap, expansions), HOSTS, DISPLAY_LOOKUP,
                          <<"Test", "rhel8">>,
                          << <<"python", python>> >> \o expansions,
                          <<"." \o topology>>,
                          Some(python), None, Some("rhel8"),
                          << <<"expansions", Len(heap) + 1>> >>)
       IN  /\ EndOfIteration(r, Len(LinuxRestItems), "other_hosts")
           /\ heap' = SubSeq(r.heap, 1, Len(heap))
    /\ UNCHANGED <<gen_fn, stdout, HOSTS, DISPLAY_LOOKUP, zc_vars, dn_vars, cv_vars>>

\* Lines 233-247; after the last iteration line 249 returns the list.
ServerOtherHosts ==
    /\ pc = "other_hosts"
    /\ LET host == OtherHostItems[it][1]
           python == OtherHostItems[it][2][1][1]
           auth == OtherHostItems[it][2][1][2][1]
           ssl == OtherHostItems[it][2][1][2][2]
           topology == OtherHostItems[it][2][1][3]
           sync == OtherHostItems[it][2][2]
           test_suite == IF sync = "sync" THEN "default" ELSE "default_async"
           expansions == << <<"AUTH", auth>>, <<"SSL", ssl>>,
                            <<"TEST_SUITES", test_suite>> >>
           r == loop_body(Append(heap, expansions), HOSTS, DISPLAY_LOOKUP,
                          <<"Test", host>>,
                          << <<"python", python>> >> \o expansions,
                          <<"." \o topology>>,
                          Some(python), None, Some(host),
                          << <<"expansions", Len(heap) + 1>> >>)
       IN  /\ EndOfIteration(r, Len(OtherHostItems), "returned")
           /\ heap' = SubSeq(r.heap, 1, Len(heap))
    /\ UNCHANGED <<gen_fn, stdout, HOSTS, DISPLAY_LOOKUP, zc_vars, dn_vars, cv_vars>>

\* generate_yaml called whatever became of the variant list.
GenerateYamlRegardless ==
    /\ gen_fn = "server"
    /\ pc \in {"returned", "raised"}
    /\ stdout' = generate_yaml(stdout, None, variants)
    /\ pc' = "done"
    /\ UNCHANGED <<gen_fn, it, variants, exc, globals, zc_vars, dn_vars, cv_vars>>

\* Line 256: generate_yaml runs once its argument create_server_variants()
\* has returned.
GenerateYaml ==
    /\ gen_fn = "server"
    /\ pc = "returned"
    /\ stdout' = generate_yaml(stdout, None, variants)
    /\ pc' = "done"
    /\ UNCHANGED <<gen_fn, it, variants, exc, globals, zc_vars, dn_vars, cv_vars>>

\* Lines 159-165: the locals of create_ocsp_variants; its expansions dict is
\* one object, passed to every create_variant call.
OcspEnter ==
    /\ pc = "start"
    /\ gen_fn = "ocsp"
    /\ heap' = Append(heap, << <<"AUTH", "noauth">>, <<"SSL", "ssl">>,
                               <<"TOPOLOGY", "server">> >>)
    /\ pc' = "ocsp_linux"
    /\ it' = 1
    /\ UNCHANGED <<gen_fn, variants, exc, stdout, HOSTS, DISPLAY_LOOKUP,
                   zc_vars, dn_vars, cv_vars>>

\* Lines 166-177 and 181-192, one iteration; after the last one line 194
\* returns the list.  The locals go when the function is left.
OcspIteration ==
    /\ pc \in {"ocsp_linux", "ocsp_other"}
    /\ LET linux == pc = "ocsp_linux"
           host == IF linux THEN "rhel8" ELSE OcspOtherItems[it][1]
           version == IF linux THEN OcspLinuxItems[it][1] ELSE OcspOtherItems[it][2]
           python == IF linux THEN OcspLinuxItems[it][2]
                     ELSE IF version = "4.4" THEN CPYTHONS[1]
                     ELSE CPYTHONS[Len(CPYTHONS)]
           r == loop_body(heap, HOSTS, DISPLAY_LOOKUP,
                          <<"OCSP test", host, version, python>>, <<>>,
                          IF linux THEN <<".ocsp">>
                          ELSE <<".ocsp-rsa !.ocsp-staple">>,
                          Some(python), Some(version), Some(host),
                          << <<"expansions", Len(heap)>>,
                             <<"batchtime", BATCHTIME_WEEK * 2>> >>)
       IN  /\ IF linux
              THEN EndOfIteration(r, Len(OcspLinuxItems), "ocsp_other")
              ELSE EndOfIteration(r, Len(OcspOtherItems), "returned")
           /\ heap' = IF pc' \in {"raised", "returned"}
                      THEN SubSeq(r.heap, 1, Len(HeapAtImport))
                      ELSE SubSeq(r.heap, 1, Len(heap))
    /\ UNCHANGED <<gen_fn, stdout, HOSTS, DISPLAY_LOOKUP, zc_vars, dn_vars, cv_vars>>

RunNext ==
    \/ ServerEnter
    \/ ServerLinuxFull
    \/ ServerLinuxRest
    \/ ServerOtherHosts
    \/ GenerateYaml
    \/ OcspEnter
    \/ OcspIteration

SpecGen == RunInit /\ [][RunNext]_vars

(***************************************************************************)
(* Claims about the generators and the run.                                *)
(***************************************************************************)
\* create_server_variants has returned its list.
ServerReturned == gen_fn = "server" /\ pc \in {"returned", "done"}

VariantExpansions(v) == IF v.expansions.some THEN v.expansions.val ELSE <<>>

HasExpansion(v, key, value) ==
    /\ DictHas(VariantExpansions(v), key)
    /\ DictGet(VariantExpansions(v), key) = value

\* C2: in the list create_server_variants returns, every variant's name is
\* its display name lowercased with hyphens for spaces, and no two variants
\* (Linux full-matrix, Linux remaining-python, other-platform) share a name.
C2_UniqueNames ==
    ServerReturned =>
        /\ \A i \in 1..Len(variants) :
               /\ Len(variants[i].name) = Len(variants[i].display_name)
               /\ \A c \in 1..Len(variants[i].name) :
                      LET a == SubSeq(variants[i].name, c, c)
                          b == SubSeq(variants[i].display_name, c, c)
                      IN  /\ a # " "
                          /\ a \notin DOMAIN LowerOf
                          /\ b = " " => a = "-"
                          /\ b \in DOMAIN LowerOf => a = LowerOf[b]
                          /\ (b # " " /\ b \notin DOMAIN LowerOf) => a = b
        /\ \A i, j \in 1..Len(variants) :
               i # j => variants[i].name # variants[j].name

\* The run is over with all three groups in the list.
C2_Witness ==
    /\ gen_fn = "server"
    /\ pc = "done"
    /\ Len(variants) = 37
    /\ variants[1].name = "test-rhel8-py3.9-auth-ssl-cov"
    /\ variants[10].name = "test-rhel8-py3.10-auth-ssl"
    /\ variants[20].name = "test-macos-arm64-py3.9-auth-ssl-sync"
    /\ variants[37].name = "test-win32-py3.9-noauth-nossl-async"

\* create_ocsp_variants has been left, by return or by an exception.
OcspLeft == gen_fn = "ocsp" /\ pc \in {"returned", "raised"}

C6_LinuxPart == SelectSeq(variants, LAMBDA v : v.run_on = <<"rhel87-small">>)

\* C6: create_ocsp_variants returns a list whose rhel8 part holds exactly
\* one variant, with task selector ".ocsp", for each (version, python) pair
\* of zip_cycle(ALL_VERSIONS without "4.0", ALL_PYTHONS), none with VERSION
\* "4.0".
C6_OcspLinuxMatrix ==
    (OcspLeft /\ HOSTS = HostsAtImport /\ DISPLAY_LOOKUP = DisplayLookupAtImport) =>
        /\ pc = "returned"
        /\ Len(C6_LinuxPart) = Max(Len(ALL_VERSIONS) - 1, Len(ALL_PYTHONS))
        /\ \A i \in 1..Len(C6_LinuxPart) :
               /\ C6_LinuxPart[i].tasks = <<[name |-> ".ocsp"]>>
               /\ ~HasExpansion(C6_LinuxPart[i], "VERSION", "4.0")
               /\ HasExpansion(C6_LinuxPart[i], "VERSION",
                      ALL_VERSIONS[1 + ((i - 1) % (Len(ALL_VERSIONS) - 1)) + 1])
               /\ HasExpansion(C6_LinuxPart[i], "PYTHON_BINARY",
                      "/opt/python/" \o ALL_PYTHONS[((i - 1) % Len(ALL_PYTHONS)) + 1]
                          \o "/bin/python3")

\* The number of variants create_server_variants builds.
C7_Complete ==
    Len(LinuxFullItems) + Len(LinuxRestItems) + Len(OtherHostItems)

\* C7: a generation run prints at most once and only after every variant
\* has been constructed; a run that failed during construction has printed
\* nothing, a run that is over without failure has printed the complete
\* document.
C7_AllOrNothing ==
    gen_fn = "server" =>
        /\ Len(stdout) <= 1
        /\ stdout # <<>> =>
               /\ exc = ""
               /\ pc = "done"
               /\ stdout[1].buildvariants = variants
               /\ Len(variants) = C7_Complete
        /\ exc # "" => pc = "raised" /\ stdout = <<>>
        /\ pc = "done" => Len(stdout) = 1

\* A run with the win32 registration missing has failed after the variants
\* of the hosts before it were built, and has printed nothing.
C7_Witness ==
    /\ gen_fn = "server"
    /\ pc = "raised"
    /\ exc = "KeyError"
    /\ ~DictHas(HOSTS, "win32")
    /\ Len(variants) = 31
    /\ stdout = <<>>

C9_NonLinuxHosts == {"macos", "macos-arm64", "win64", "win32"}

\* The variants of one host, told by the host label in the display name.
C9_Of(host) ==
    SelectSeq(variants,
              LAMBDA v : StartsWith(v.display_name,
                                    "Test " \o DictGet(HostsAtImport, host).display_name
                                        \o " py"))

\* C9: for each non-Linux host create_server_variants returns exactly
\* 2 * max(|MIN_MAX_PYTHON|, |AUTH_SSLS|, |TOPOLOGIES|) = 6 variants, and for
\* each of TEST_SUITES "default" and "default_async" every auth/SSL pair,
\* every topology and both the oldest and the newest CPython appear in at
\* least one of them.
C9_OtherHostCoverage ==
    ServerReturned =>
        \A host \in C9_NonLinuxHosts :
            LET vs == C9_Of(host)
            IN  /\ Len(vs) = 2 * Max(Len(MIN_MAX_PYTHON),
                                     Max(Len(AUTH_SSLS), Len(TOPOLOGIES)))
                /\ Len(vs) = 6
                /\ \A suite \in {"default", "default_async"} :
                       /\ \A a \in 1..Len(AUTH_SSLS) : \E i \in 1..Len(vs) :
                              /\ HasExpansion(vs[i], "TEST_SUITES", suite)
                              /\ HasExpansion(vs[i], "AUTH", AUTH_SSLS[a][1])
                              /\ HasExpansion(vs[i], "SSL", AUTH_SSLS[a][2])
                       /\ \A t \in 1..Len(TOPOLOGIES) : \E i \in 1..Len(vs) :
                              /\ HasExpansion(vs[i], "TEST_SUITES", suite)
                              /\ vs[i].tasks = <<[name |-> "." \o TOPOLOGIES[t]]>>
                       /\ \A p \in {CPYTHONS[1], CPYTHONS[Len(CPYTHONS)]} :
                              \E i \in 1..Len(vs) :
                                  /\ HasExpansion(vs[i], "TEST_SUITES", suite)
                                  /\ HasExpansion(vs[i], "PYTHON_BINARY",
                                         get_python_binary(p, host).val)

\* The list has been returned and holds the async replica-set variant of
\* macos-arm64 with the newest CPython.
C9_Witness ==
    /\ ServerReturned
    /\ Len(variants) = 37
    /\ variants[23].display_name = "Test macOS Arm64 py3.13 NoAuth SSL Async"
    /\ variants[23].tasks = <<[name |-> ".replica_set"]>>
    /\ HasExpansion(variants[23], "TEST_SUITES", "default_async")
    /\ HasExpansion(variants[23], "PYTHON_BINARY",
           "/Library/Frameworks/Python.Framework/Versions/3.13/bin/python3")
    /\ HasExpansion(variants[23], "SKIP_CSOT_TESTS", "true")

====
